---- MODULE Spec2Model ----
(***************************************************************************)
(* Model of the keg-scale backend state holder (src/backend/scale.go):     *)
(* the ring-buffer ledger of measurements, the liveness timestamp, the     *)
(* derived open/closed venue status, the mutex that guards them and the    *)
(* store the ledger forwards to.                                           *)
(*                                                                         *)
(* Threads are the concurrent callers of the Scale methods (HTTP handler   *)
(* goroutines) and the background goroutine of NewScale that calls Recheck *)
(* forever.  Every method is split at its mutex operations: one step to    *)
(* acquire the mutex, one step per stretch of code run while holding it.   *)
(*                                                                         *)
(* Time is an integer clock in minutes.  Every time.Now()/time.Since()     *)
(* returns a reading strictly later than the previous one (nanosecond      *)
(* monotonic clock), and Tick lets time pass between steps.                *)
(***************************************************************************)
EXTENDS Integers, Sequences, FiniteSets, TLC

\* ---- bounds of the model
Size == 3
MaxTime == 14
MaxStored == 1
MaxAppends == 5

\* ---- program constants
OkLimit == 5
FarPast == 599940
MinWeight == 6000
MaxWeight == 65000
StoreKeep == 1000
ZeroTime == -1000000

\* ---- threads: a goroutine handling a scale message, a goroutine serving a
\* status query, and the background goroutine started by NewScale
Handler == "handler"
Reader == "reader"
Clients == {Handler, Reader}
Bg == "bg"
Threads == Clients \cup {Bg}
Free == "free"

Weights == {100, 7000, 90000}
PlausibleWeights == {7000, 8500}
Rssis == {-74}
Kegs == {30}
TickSteps == {1, OkLimit}

VARIABLES
  Measurements,       \* s.Measurements: slot -> Measurement
  index,              \* s.index: the write cursor, -1 when nothing was written
  valid,              \* s.valid
  Pub,                \* s.Pub: [IsOpen, OpenedAt, ClosedAt]
  ActiveKeg,          \* s.ActiveKeg
  LastOk,             \* s.LastOk
  Rssi,               \* s.Rssi
  mux,                \* s.mux: Free or the thread that holds it
  storeMeasurements,  \* the store's measurement list, oldest first
  storeActiveKeg,     \* the store's active keg
  now,                \* the last clock reading handed out
  pc,                 \* thread -> position in the method it runs
  op,                 \* thread -> the method it called last
  arg,                \* thread -> that call's argument
  loc,                \* thread -> local variable of the running method
  ret,                \* thread -> what its last completed call returned
  appended,           \* history: the measurements AddMeasurement wrote, in order
  storeFailed,        \* history: some store.AddMeasurement returned an error
  loaded,             \* history: number of measurements loaded at construction
  req                 \* thread -> the HTTP request its handler is serving

ledger == <<Measurements, index, valid>>
liveness == <<LastOk, Rssi>>
storeVars == <<storeMeasurements, storeActiveKeg>>
history == <<appended, storeFailed, loaded>>
vars == <<Measurements, index, valid, Pub, ActiveKeg, LastOk, Rssi, mux,
          storeMeasurements, storeActiveKeg, now, pc, op, arg, loc, ret,
          appended, storeFailed, loaded, req>>

\* ---- values

Min(a, b) == IF a < b THEN a ELSE b

\* Go's % truncates toward zero.
GoMod(a, b) == IF a >= 0 THEN a % b ELSE -((-a) % b)

Measurement(i, w, at) == [Index |-> i, Weight |-> w, At |-> at]

\* the zero value of a slot made by make([]Measurement, bufferSize)
ZeroMeasurement == Measurement(0, 0, ZeroTime)

\* the value GetMeasurement returns when it rejects the offset
EmptyMeasurement == Measurement(-1, 0, ZeroTime)

\* what a call returns: a measurement, a number, a boolean, an error flag
Ret(m, n, b, e) == [val |-> m, num |-> n, flag |-> b, err |-> e]
NoRet == Ret(ZeroMeasurement, 0, FALSE, FALSE)

\* what JsonState returns: the exported fields of the Scale as marshalled
RetJson(ms, pub, keg, lastOk, rssi) ==
  [val |-> ZeroMeasurement, num |-> 0, flag |-> FALSE, err |-> FALSE,
   state |-> [Measurements |-> ms, Pub |-> pub, ActiveKeg |-> keg,
              LastOk |-> lastOk, Rssi |-> rssi]]

\* what the dashboard shows: the last measurement, is_ok, rssi, last_update
RetDashboard(last, isOk, rssi, lastOk) ==
  [val |-> last, num |-> rssi, flag |-> isOk, err |-> FALSE, lastUpdate |-> lastOk]

\* what AvgLastN returns: the float64 quotient sum / float64(n), kept as the
\* fraction it is the value of
RetAvg(sum, n) ==
  [val |-> ZeroMeasurement, num |-> sum, den |-> n, flag |-> FALSE, err |-> FALSE]

\* an HTTP request being served: its kind ("push" or "ping" for a scale
\* message, "dashboard" for a status query), the signal and weight a message
\* carries, the clock when it arrived, whether the response is written
Request(kind, rssi, value, at, done) ==
  [kind |-> kind, rssi |-> rssi, value |-> value, at |-> at, done |-> done]
NoRequest == Request("none", 0, 0, 0, TRUE)

\* ---- the store

\* The list a store holds when the process starts: k measurements written by
\* an earlier run, oldest first, all older than this run's clock.
StoredBefore(k) == [j \in 1..k |-> Measurement((j - 1) % Size, 7000, j - k)]

\* RedisStore.AddMeasurement: RPUSH, then LTRIM to the last StoreKeep items
StoreAppend(list, m) ==
  LET l == Append(list, m)
  IN IF Len(l) > StoreKeep THEN SubSeq(l, Len(l) - StoreKeep + 1, Len(l)) ELSE l

\* ---- construction

\* loadDataFromStore: every loaded measurement is written to slot 0 (i is
\* never advanced), the cursor is set to len-1 and valid is left alone.
LoadedMeasurements(ms) ==
  [i \in 0..(Size - 1) |->
     IF i = 0 /\ Len(ms) > 0 THEN ms[Len(ms)] ELSE ZeroMeasurement]

LoadedIndex(ms) == Len(ms) - 1

\* NewScale: the three time.Now() of the literal are the clock readings 1, 2
\* and 3, each moved 9999 hours back; then loadDataFromStore runs against a
\* store that holds 0..MaxStored measurements and answers or fails.
Init ==
  \E k \in 0..MaxStored, loadOk \in BOOLEAN :
    LET stored == StoredBefore(k)
        got == IF loadOk THEN stored ELSE << >>
    IN /\ storeMeasurements = stored
       /\ storeActiveKeg = 0
       /\ Measurements = (IF loadOk THEN LoadedMeasurements(got)
                                    ELSE [i \in 0..(Size - 1) |-> ZeroMeasurement])
       /\ index = (IF loadOk THEN LoadedIndex(got) ELSE -1)
       /\ valid = 0
       /\ Pub = [IsOpen |-> FALSE, OpenedAt |-> 1 - FarPast, ClosedAt |-> 2 - FarPast]
       /\ ActiveKeg = 0
       /\ LastOk = 3 - FarPast
       /\ Rssi = 0
       /\ mux = Free
       /\ now = 3
       /\ pc = [t \in Threads |-> "idle"]
       /\ op = [t \in Threads |-> "none"]
       /\ arg = [t \in Threads |-> 0]
       /\ loc = [t \in Threads |-> 0]
       /\ ret = [t \in Threads |-> NoRet]
       /\ appended = << >>
       /\ storeFailed = FALSE
       /\ loaded = Len(got)
       /\ req = [t \in Threads |-> NoRequest]

\* ---- calling and locking

\* a thread calls a method: it goes to that method's first position
Call(t, name, a, first) ==
  /\ pc[t] = "idle"
  /\ pc' = [pc EXCEPT ![t] = first]
  /\ op' = [op EXCEPT ![t] = name]
  /\ arg' = [arg EXCEPT ![t] = a]
  /\ loc' = [loc EXCEPT ![t] = 0]
  /\ ret' = [ret EXCEPT ![t] = NoRet]

\* a method returns r
Return(t, r) ==
  /\ pc' = [pc EXCEPT ![t] = "idle"]
  /\ ret' = [ret EXCEPT ![t] = r]

\* the position after s.mux.Lock() for each position that waits on it
AfterLock(p) ==
  CASE p = "Ping_lock" -> "Ping_cs"
    [] p = "SetRssi_lock" -> "SetRssi_cs"
    [] p = "Add_lock" -> "Add_cs"
    [] p = "Count_lock" -> "Count_cs"
    [] p = "GetM_count_lock" -> "GetM_count_cs"
    [] p = "GetM_lock" -> "GetM_cs"
    [] p = "HasLastN_lock" -> "HasLastN_cs"
    [] p = "IsOk_lock" -> "IsOk_cs"
    [] p = "Recheck_isok_lock" -> "Recheck_isok_cs"
    [] p = "Recheck_lock" -> "Recheck_cs"
    [] p = "SetKeg_lock" -> "SetKeg_cs"
    [] p = "Sum_lock" -> "Sum_cs"
    [] p = "Json_lock" -> "Json_cs"
    [] OTHER -> "none"

\* s.mux.Lock(): blocks until the mutex is free
Lock(t) ==
  /\ AfterLock(pc[t]) # "none"
  /\ mux = Free
  /\ mux' = t
  /\ pc' = [pc EXCEPT ![t] = AfterLock(pc[t])]
  /\ UNCHANGED <<req, ledger, Pub, ActiveKeg, liveness, storeVars, now, op, arg, loc,
                 ret, history>>

\* ---- the clock

\* the clock readings a method still takes from position p on
ReadsLeft(p) ==
  CASE p \in {"Ping_lock", "Ping_cs"} -> 2
    [] p \in {"Recheck_isok_lock", "Recheck_isok_cs"} -> 2
    [] p \in {"Recheck_lock", "Recheck_cs"} -> 1
    [] p \in {"Add_lock", "Add_cs"} -> 1
    [] p \in {"IsOk_lock", "IsOk_cs"} -> 1
    [] p = "Dash_fields" -> 2
    [] OTHER -> 0

RECURSIVE ReadsInFlight(_)
ReadsInFlight(S) ==
  IF S = {} THEN 0
  ELSE LET t == CHOOSE x \in S : TRUE
       IN ReadsLeft(pc[t]) + ReadsInFlight(S \ {t})

\* The clock is followed up to MaxTime: time may advance by d, or a call that
\* reads the clock may start, only while every running call can still take
\* its readings.
ClockAllows(d) == now + d + ReadsInFlight(Threads) <= MaxTime

\* time passes
Tick ==
  \E d \in TickSteps :
    /\ ClockAllows(d)
    /\ now' = now + d
    /\ UNCHANGED <<req, ledger, Pub, ActiveKeg, liveness, mux, storeVars, pc, op, arg,
                   loc, ret, history>>

\* time passes until a contact is stale
LongTick == Tick /\ now' = now + OkLimit

\* ---- Ping

CallPing(t) ==
  /\ ClockAllows(2)
  /\ Call(t, "Ping", 0, "Ping_lock")
  /\ UNCHANGED <<req, ledger, Pub, ActiveKeg, liveness, mux, storeVars, now, history>>

\* Ping that stamps OpenedAt on every contact
PingStampsAlways(t) ==
  /\ pc[t] = "Ping_cs"
  /\ mux = t
  /\ Pub' = [Pub EXCEPT !.IsOpen = TRUE, !.OpenedAt = now + 1]
  /\ LastOk' = now + 2
  /\ now' = now + 2
  /\ mux' = Free
  /\ Return(t, NoRet)
  /\ UNCHANGED <<req, ledger, ActiveKeg, Rssi, storeVars, op, arg, loc, history>>

\* Ping's critical section: open the venue if it is closed, record the contact
Ping(t) ==
  /\ pc[t] = "Ping_cs"
  /\ mux = t
  /\ IF ~Pub.IsOpen
       THEN /\ Pub' = [Pub EXCEPT !.IsOpen = TRUE, !.OpenedAt = now + 1]
            /\ LastOk' = now + 2
            /\ now' = now + 2
       ELSE /\ Pub' = Pub
            /\ LastOk' = now + 1
            /\ now' = now + 1
  /\ mux' = Free
  /\ Return(t, NoRet)
  /\ UNCHANGED <<req, ledger, ActiveKeg, Rssi, storeVars, op, arg, loc, history>>

\* ---- IsOk and Recheck

\* time.Since(s.LastOk) < OkLimit, with the clock reading at
IsOkAt(at) == at - LastOk < OkLimit

CallIsOk(t) ==
  /\ ClockAllows(1)
  /\ Call(t, "IsOk", 0, "IsOk_lock")
  /\ UNCHANGED <<req, ledger, Pub, ActiveKeg, liveness, mux, storeVars, now, history>>

IsOk(t) ==
  /\ pc[t] = "IsOk_cs"
  /\ mux = t
  /\ now' = now + 1
  /\ mux' = Free
  /\ Return(t, Ret(ZeroMeasurement, 0, IsOkAt(now + 1), FALSE))
  /\ UNCHANGED <<req, ledger, Pub, ActiveKeg, liveness, storeVars, op, arg, loc, history>>

CallRecheck(t) ==
  /\ ClockAllows(2)
  /\ Call(t, "Recheck", 0, "Recheck_isok_lock")
  /\ UNCHANGED <<req, ledger, Pub, ActiveKeg, liveness, mux, storeVars, now, history>>

\* Recheck's call of IsOk: the mutex is released when IsOk returns
RecheckIsOk(t) ==
  /\ pc[t] = "Recheck_isok_cs"
  /\ mux = t
  /\ now' = now + 1
  /\ mux' = Free
  /\ IF IsOkAt(now + 1)
       THEN Return(t, NoRet)
       ELSE /\ pc' = [pc EXCEPT ![t] = "Recheck_lock"]
            /\ ret' = ret
  /\ UNCHANGED <<req, ledger, Pub, ActiveKeg, liveness, storeVars, op, arg, loc, history>>

\* Recheck that closes without looking at Pub.IsOpen
RecheckCloseUnguarded(t) ==
  /\ pc[t] = "Recheck_cs"
  /\ mux = t
  /\ Pub' = [Pub EXCEPT !.IsOpen = FALSE, !.ClosedAt = (now + 1) - OkLimit]
  /\ now' = now + 1
  /\ mux' = Free
  /\ Return(t, NoRet)
  /\ UNCHANGED <<req, ledger, ActiveKeg, liveness, storeVars, op, arg, loc, history>>

\* Recheck that returns without closing
RecheckCloseSkipped(t) ==
  /\ pc[t] = "Recheck_cs"
  /\ mux = t
  /\ Pub' = Pub
  /\ now' = now
  /\ mux' = Free
  /\ Return(t, NoRet)
  /\ UNCHANGED <<req, ledger, ActiveKeg, liveness, storeVars, op, arg, loc, history>>

\* Recheck's own critical section: close the venue if it is open
RecheckClose(t) ==
  /\ pc[t] = "Recheck_cs"
  /\ mux = t
  /\ IF Pub.IsOpen
       THEN /\ Pub' = [Pub EXCEPT !.IsOpen = FALSE, !.ClosedAt = (now + 1) - OkLimit]
            /\ now' = now + 1
       ELSE /\ Pub' = Pub
            /\ now' = now
  /\ mux' = Free
  /\ Return(t, NoRet)
  /\ UNCHANGED <<req, ledger, ActiveKeg, liveness, storeVars, op, arg, loc, history>>

\* ---- SetRssi

CallSetRssi(t, r) ==
  /\ Call(t, "SetRssi", r, "SetRssi_lock")
  /\ UNCHANGED <<req, ledger, Pub, ActiveKeg, liveness, mux, storeVars, now, history>>

\* SetRssi that drops the value
SetRssiDropped(t) ==
  /\ pc[t] = "SetRssi_cs"
  /\ mux = t
  /\ Rssi' = Rssi
  /\ mux' = Free
  /\ Return(t, NoRet)
  /\ UNCHANGED <<req, ledger, Pub, ActiveKeg, LastOk, storeVars, now, op, arg, loc, history>>

SetRssi(t) ==
  /\ pc[t] = "SetRssi_cs"
  /\ mux = t
  /\ Rssi' = arg[t]
  /\ mux' = Free
  /\ Return(t, NoRet)
  /\ UNCHANGED <<req, ledger, Pub, ActiveKeg, LastOk, storeVars, now, op, arg, loc, history>>

\* ---- AddMeasurement

\* the plausibility filter
Implausible(w) == w < MinWeight \/ w > MaxWeight

\* s.index++, wrapping to 0 at the end of the buffer
NextIndex(i) == IF i + 1 >= Size THEN 0 ELSE i + 1

\* s.valid++ without the test against s.size
NextValidUnbounded(v) == v + 1

\* s.valid++ while it is below s.size
NextValid(v) == IF v < Size THEN v + 1 ELSE v

CallAddMeasurement(t, w) ==
  /\ IF Implausible(w)
       THEN /\ pc[t] = "idle"
            /\ pc' = pc
            /\ op' = [op EXCEPT ![t] = "AddMeasurement"]
            /\ arg' = [arg EXCEPT ![t] = w]
            /\ loc' = [loc EXCEPT ![t] = 0]
            /\ ret' = [ret EXCEPT ![t] = NoRet]
       ELSE /\ ClockAllows(1)
            /\ Len(appended) < MaxAppends
            /\ Call(t, "AddMeasurement", w, "Add_lock")
  /\ UNCHANGED <<req, ledger, Pub, ActiveKeg, liveness, mux, storeVars, now, history>>

\* under the mutex: advance the cursor, write the slot, call the store
AddWrite(t) ==
  /\ pc[t] = "Add_cs"
  /\ mux = t
  /\ LET i == NextIndex(index)
         m == Measurement(i, arg[t], now + 1)
     IN /\ index' = i
        /\ Measurements' = [Measurements EXCEPT ![i] = m]
        /\ appended' = Append(appended, m)
  /\ now' = now + 1
  /\ pc' = [pc EXCEPT ![t] = "Add_store"]
  /\ UNCHANGED <<req, valid, Pub, ActiveKeg, liveness, mux, storeVars, op, arg, loc, ret,
                 storeFailed, loaded>>

\* store.AddMeasurement returns, still under the mutex: on an error
\* AddMeasurement returns it at once, otherwise it counts the measurement.
AddStoreReturn(t) ==
  /\ pc[t] = "Add_store"
  /\ mux = t
  /\ \E stored \in BOOLEAN :
       /\ storeMeasurements' =
            (IF stored THEN StoreAppend(storeMeasurements, Measurements[index])
                       ELSE storeMeasurements)
       /\ IF stored
            THEN /\ valid' = NextValid(valid)
                 /\ storeFailed' = storeFailed
                 /\ Return(t, NoRet)
            ELSE /\ valid' = valid
                 /\ storeFailed' = TRUE
                 /\ Return(t, Ret(ZeroMeasurement, 0, FALSE, TRUE))
  /\ mux' = Free
  /\ UNCHANGED <<req, Measurements, index, Pub, ActiveKeg, liveness, storeActiveKeg, now,
                 op, arg, loc, appended, loaded>>

\* AddMeasurement's store call answers without an error
AddStored(t) == AddStoreReturn(t) /\ ~storeFailed'

\* ---- reading the ledger

CallGetValidCount(t) ==
  /\ Call(t, "GetValidCount", 0, "Count_lock")
  /\ UNCHANGED <<req, ledger, Pub, ActiveKeg, liveness, mux, storeVars, now, history>>

GetValidCount(t) ==
  /\ pc[t] = "Count_cs"
  /\ mux = t
  /\ mux' = Free
  /\ Return(t, Ret(ZeroMeasurement, valid, FALSE, FALSE))
  /\ UNCHANGED <<req, ledger, Pub, ActiveKeg, liveness, storeVars, now, op, arg, loc,
                 history>>

\* GetMeasurement's test of the offset against the count it read and s.size
OffsetRejected(k, count) == k > count \/ k > Size

\* the slot an offset maps to
PhysicalIndex(k) == GoMod(index - k + Size, Size)

CallGetMeasurement(t, k) ==
  /\ Call(t, "GetMeasurement", k, "GetM_count_lock")
  /\ UNCHANGED <<req, ledger, Pub, ActiveKeg, liveness, mux, storeVars, now, history>>

\* GetMeasurement that takes the mutex before it calls GetValidCount
GetMeasurementCountHolding(t) ==
  /\ pc[t] = "GetM_count_cs"
  /\ mux = t
  /\ mux' = mux
  /\ loc' = [loc EXCEPT ![t] = valid]
  /\ IF OffsetRejected(arg[t], valid)
       THEN Return(t, Ret(EmptyMeasurement, 0, FALSE, FALSE))
       ELSE /\ pc' = [pc EXCEPT ![t] = "GetM_lock"]
            /\ ret' = ret
  /\ UNCHANGED <<req, ledger, Pub, ActiveKeg, liveness, storeVars, now, op, arg, history>>

\* GetMeasurement's call of GetValidCount, and the test of the offset
GetMeasurementCount(t) ==
  /\ pc[t] = "GetM_count_cs"
  /\ mux = t
  /\ mux' = Free
  /\ loc' = [loc EXCEPT ![t] = valid]
  /\ IF OffsetRejected(arg[t], valid)
       THEN Return(t, Ret(EmptyMeasurement, 0, FALSE, FALSE))
       ELSE /\ pc' = [pc EXCEPT ![t] = "GetM_lock"]
            /\ ret' = ret
  /\ UNCHANGED <<req, ledger, Pub, ActiveKeg, liveness, storeVars, now, op, arg, history>>

\* GetMeasurement's own critical section: read the slot
GetMeasurementRead(t) ==
  /\ pc[t] = "GetM_cs"
  /\ mux = t
  /\ mux' = Free
  /\ Return(t, Ret(Measurements[PhysicalIndex(arg[t])], 0, FALSE, FALSE))
  /\ UNCHANGED <<req, ledger, Pub, ActiveKeg, liveness, storeVars, now, op, arg, loc,
                 history>>

\* HasLastN without the clamp
ClampNone(n) == n

\* HasLastN's clamp of n to the buffer size
ClampN(n) == IF n > Size THEN Size ELSE n

CallHasLastN(t, n) ==
  /\ Call(t, "HasLastN", n, "HasLastN_lock")
  /\ UNCHANGED <<req, ledger, Pub, ActiveKeg, liveness, mux, storeVars, now, history>>

\* HasLastN asking for more than n measurements
HasLastNStrict(t) ==
  /\ pc[t] = "HasLastN_cs"
  /\ mux = t
  /\ mux' = Free
  /\ Return(t, Ret(ZeroMeasurement, 0, valid > ClampN(arg[t]), FALSE))
  /\ UNCHANGED <<req, ledger, Pub, ActiveKeg, liveness, storeVars, now, op, arg, loc,
                 history>>

HasLastN(t) ==
  /\ pc[t] = "HasLastN_cs"
  /\ mux = t
  /\ mux' = Free
  /\ Return(t, Ret(ZeroMeasurement, 0, valid >= ClampN(arg[t]), FALSE))
  /\ UNCHANGED <<req, ledger, Pub, ActiveKeg, liveness, storeVars, now, op, arg, loc,
                 history>>

\* ---- SumLastN, AvgLastN

\* the loop started one slot before the cursor
RECURSIVE SumWeightsBehind(_)
SumWeightsBehind(n) ==
  IF n <= 0 THEN 0
  ELSE SumWeightsBehind(n - 1) + Measurements[GoMod(index - n + 2 * Size, Size)].Weight

\* SumLastN's loop: the weights of the slots at the cursor and the n - 1
\* before it
RECURSIVE SumWeights(_)
SumWeights(n) ==
  IF n <= 0 THEN 0
  ELSE SumWeights(n - 1) + Measurements[GoMod(index - (n - 1) + Size, Size)].Weight

CallSumLastN(t, n) ==
  /\ Call(t, "SumLastN", n, "Sum_lock")
  /\ UNCHANGED <<req, ledger, Pub, ActiveKeg, liveness, mux, storeVars, now, history>>

\* AvgLastN clamps n, returns 0 for n = 0 and otherwise calls SumLastN
CallAvgLastN(t, n) ==
  /\ IF ClampN(n) = 0
       THEN /\ pc[t] = "idle"
            /\ pc' = pc
            /\ op' = [op EXCEPT ![t] = "AvgLastN"]
            /\ arg' = [arg EXCEPT ![t] = n]
            /\ loc' = [loc EXCEPT ![t] = 0]
            /\ ret' = [ret EXCEPT ![t] = RetAvg(0, 1)]
       ELSE Call(t, "AvgLastN", n, "Sum_lock")
  /\ UNCHANGED <<req, ledger, Pub, ActiveKeg, liveness, mux, storeVars, now, history>>

\* SumLastN under the mutex; when AvgLastN called it, AvgLastN divides the
\* sum by the clamped n
SumLastN(t) ==
  /\ pc[t] = "Sum_cs"
  /\ mux = t
  /\ mux' = Free
  /\ LET n == ClampN(arg[t])
         sum == SumWeights(n)
     IN IF op[t] = "AvgLastN"
          THEN Return(t, RetAvg(sum, n))
          ELSE Return(t, Ret(ZeroMeasurement, sum, FALSE, FALSE))
  /\ UNCHANGED <<req, ledger, Pub, ActiveKeg, liveness, storeVars, now, op, arg, loc,
                 history>>

\* ---- SetActiveKeg

CallSetActiveKeg(t, k) ==
  /\ Call(t, "SetActiveKeg", k, "SetKeg_lock")
  /\ UNCHANGED <<req, ledger, Pub, ActiveKeg, liveness, mux, storeVars, now, history>>

\* under the mutex: set the field, call the store
SetActiveKeg(t) ==
  /\ pc[t] = "SetKeg_cs"
  /\ mux = t
  /\ ActiveKeg' = arg[t]
  /\ pc' = [pc EXCEPT ![t] = "SetKeg_store"]
  /\ UNCHANGED <<req, ledger, Pub, liveness, mux, storeVars, now, op, arg, loc, ret, history>>

\* store.SetActiveKeg returns, still under the mutex
SetActiveKegStoreReturn(t) ==
  /\ pc[t] = "SetKeg_store"
  /\ mux = t
  /\ \E ok \in BOOLEAN :
       /\ storeActiveKeg' = (IF ok THEN arg[t] ELSE storeActiveKeg)
       /\ Return(t, Ret(ZeroMeasurement, 0, FALSE, ~ok))
  /\ mux' = Free
  /\ UNCHANGED <<req, ledger, Pub, ActiveKeg, liveness, storeMeasurements, now, op, arg,
                 loc, history>>

\* ---- scaleMessageHandler

MessageKinds == {"push", "ping"}

\* a well-formed message arrives: the handler parses it and calls Ping
MessageArrives(t, kind, r, w) ==
  /\ req[t].done
  /\ ClockAllows(2)
  /\ Call(t, "Ping", 0, "Ping_lock")
  /\ req' = [req EXCEPT ![t] = Request(kind, r, w, now, FALSE)]
  /\ UNCHANGED <<ledger, Pub, ActiveKeg, liveness, mux, storeVars, now, history>>

\* Ping has returned: the handler calls SetRssi(message.Rssi)
MessageSetRssi(t) ==
  /\ ~req[t].done
  /\ req[t].kind \in MessageKinds
  /\ op[t] = "Ping"
  /\ Call(t, "SetRssi", req[t].rssi, "SetRssi_lock")
  /\ UNCHANGED <<req, ledger, Pub, ActiveKeg, liveness, mux, storeVars, now,
                 history>>

\* SetRssi has returned and the message is a push: the handler calls
\* AddMeasurement(message.Value) and ignores what it returns
MessageAddMeasurement(t) ==
  /\ ~req[t].done
  /\ req[t].kind = "push"
  /\ op[t] = "SetRssi"
  /\ CallAddMeasurement(t, req[t].value)

\* the handler writes "OK"
MessageDone(t) ==
  /\ ~req[t].done
  /\ pc[t] = "idle"
  /\ \/ req[t].kind = "ping" /\ op[t] = "SetRssi"
     \/ req[t].kind = "push" /\ op[t] = "AddMeasurement"
  /\ req' = [req EXCEPT ![t].done = TRUE]
  /\ UNCHANGED <<ledger, Pub, ActiveKeg, liveness, mux, storeVars, now, pc, op,
                 arg, loc, ret, history>>

\* ---- JsonState

CallJsonState(t) ==
  /\ Call(t, "JsonState", 0, "Json_lock")
  /\ UNCHANGED <<req, ledger, Pub, ActiveKeg, liveness, mux, storeVars, now, history>>

\* under the mutex: marshal the Scale
JsonState(t) ==
  /\ pc[t] = "Json_cs"
  /\ mux = t
  /\ mux' = Free
  /\ Return(t, RetJson(Measurements, Pub, ActiveKeg, LastOk, Rssi))
  /\ UNCHANGED <<req, ledger, Pub, ActiveKeg, liveness, storeVars, now, op, arg, loc,
                 history>>

\* ---- scaleDashboardHandler

\* a dashboard query arrives: the handler calls HasLastN(1)
DashboardArrives(t) ==
  /\ req[t].done
  /\ Call(t, "HasLastN", 1, "HasLastN_lock")
  /\ req' = [req EXCEPT ![t] = Request("dashboard", 0, 0, now, FALSE)]
  /\ UNCHANGED <<ledger, Pub, ActiveKeg, liveness, mux, storeVars, now, history>>

\* HasLastN(1) was false: the handler answers 425 Too Early
DashboardTooEarly(t) ==
  /\ ~req[t].done
  /\ req[t].kind = "dashboard"
  /\ pc[t] = "idle"
  /\ op[t] = "HasLastN"
  /\ ~ret[t].flag
  /\ req' = [req EXCEPT ![t].done = TRUE]
  /\ UNCHANGED <<ledger, Pub, ActiveKeg, liveness, mux, storeVars, now, pc, op,
                 arg, loc, ret, history>>

\* HasLastN(1) was true: the handler calls GetLastMeasurement()
DashboardGetLast(t) ==
  /\ ~req[t].done
  /\ req[t].kind = "dashboard"
  /\ op[t] = "HasLastN"
  /\ ret[t].flag
  /\ Call(t, "GetMeasurement", 0, "GetM_count_lock")
  /\ UNCHANGED <<req, ledger, Pub, ActiveKeg, liveness, mux, storeVars, now,
                 history>>

\* the handler evaluates time.Since(hr.scale.LastOk) < 5 minutes: it reads
\* LastOk without taking the mutex
DashboardReadIsOk(t) ==
  /\ ~req[t].done
  /\ req[t].kind = "dashboard"
  /\ pc[t] = "idle"
  /\ op[t] = "GetMeasurement"
  /\ ClockAllows(3)
  /\ now' = now + 1
  /\ pc' = [pc EXCEPT ![t] = "Dash_fields"]
  /\ op' = [op EXCEPT ![t] = "Dashboard"]
  /\ ret' = [ret EXCEPT ![t] = RetDashboard(ret[t].val, IsOkAt(now + 1), 0, 0)]
  /\ UNCHANGED <<req, ledger, Pub, ActiveKeg, liveness, mux, storeVars, arg, loc,
                 history>>

\* the handler fills in the rest (two more clock readings): it reads Rssi and
\* LastOk without taking the mutex, and writes the response
DashboardReadFields(t) ==
  /\ pc[t] = "Dash_fields"
  /\ now' = now + 2
  /\ Return(t, RetDashboard(ret[t].val, ret[t].flag, Rssi, LastOk))
  /\ req' = [req EXCEPT ![t].done = TRUE]
  /\ UNCHANGED <<ledger, Pub, ActiveKeg, liveness, mux, storeVars, op, arg, loc,
                 history>>

\* ---- the system

\* a client calls a method of the Scale
ClientCall(t) ==
  \/ CallPing(t)
  \/ \E r \in Rssis : CallSetRssi(t, r)
  \/ \E w \in Weights : CallAddMeasurement(t, w)
  \/ CallGetValidCount(t)
  \/ \E k \in 0..(Size + 1) : CallGetMeasurement(t, k)
  \/ \E n \in 0..(Size + 1) : CallHasLastN(t, n)
  \/ CallIsOk(t)
  \/ CallRecheck(t)
  \/ \E k \in Kegs : CallSetActiveKeg(t, k)
  \/ \E n \in 0..(Size + 1) : CallSumLastN(t, n)
  \/ \E n \in 0..(Size + 1) : CallAvgLastN(t, n)
  \/ CallJsonState(t)

\* a thread takes the next step of the method it runs
Step(t) ==
  \/ Lock(t)
  \/ Ping(t)
  \/ IsOk(t)
  \/ RecheckIsOk(t)
  \/ RecheckClose(t)
  \/ SetRssi(t)
  \/ AddWrite(t)
  \/ AddStoreReturn(t)
  \/ GetValidCount(t)
  \/ GetMeasurementCount(t)
  \/ GetMeasurementRead(t)
  \/ HasLastN(t)
  \/ SetActiveKeg(t)
  \/ SetActiveKegStoreReturn(t)
  \/ SumLastN(t)
  \/ JsonState(t)

\* The whole system: any client calls any method, the background goroutine
\* calls Recheck, time passes.
Next ==
  \/ Tick
  \/ \E t \in Clients : ClientCall(t)
  \/ CallRecheck(Bg)
  \/ \E t \in Threads : Step(t)

Spec == Init /\ [][Next]_vars

\* The venue state machine under its callers: the handler records contacts
\* and the signal, the background goroutine and an on-demand caller
\* re-evaluate, time passes.  The steps left out of Next leave Pub, LastOk,
\* Rssi and the clock unchanged.
NextVenue ==
  \/ Tick
  \/ CallPing(Handler)
  \/ \E r \in Rssis : CallSetRssi(Handler, r)
  \/ CallIsOk(Reader)
  \/ CallRecheck(Reader)
  \/ CallRecheck(Bg)
  \/ \E t \in Threads : Lock(t)
  \/ Ping(Handler)
  \/ SetRssi(Handler)
  \/ IsOk(Reader)
  \/ \E t \in {Reader, Bg} : RecheckIsOk(t)
  \/ \E t \in {Reader, Bg} : RecheckClose(t)

SpecVenue == Init /\ [][NextVenue]_vars

\* The ledger under its callers: the handler appends (and calls the store),
\* a status query reads, concurrently.  The clock moves only by the readings
\* AddMeasurement takes.
NextLedger ==
  \/ \E w \in Weights : CallAddMeasurement(Handler, w)
  \/ CallGetValidCount(Reader)
  \/ \E k \in 0..(Size + 1) : CallGetMeasurement(Reader, k)
  \/ \E n \in 0..(Size + 1) : CallHasLastN(Reader, n)
  \/ \E t \in Clients : Lock(t)
  \/ AddWrite(Handler)
  \/ AddStoreReturn(Handler)
  \/ GetValidCount(Reader)
  \/ GetMeasurementCount(Reader)
  \/ GetMeasurementRead(Reader)
  \/ HasLastN(Reader)

SpecLedger == Init /\ [][NextLedger]_vars

\* The message endpoint under the background goroutine: the handler serves
\* one scale message after another (Ping, SetRssi and, for a push,
\* AddMeasurement against a store that answers), Recheck runs concurrently,
\* time passes in steps of OkLimit.
NextMessage ==
  \/ LongTick
  \/ \E r \in Rssis, w \in Weights : MessageArrives(Handler, "push", r, w)
  \/ \E r \in Rssis : MessageArrives(Handler, "ping", r, 0)
  \/ MessageSetRssi(Handler)
  \/ MessageAddMeasurement(Handler)
  \/ MessageDone(Handler)
  \/ CallRecheck(Bg)
  \/ \E t \in {Handler, Bg} : Lock(t)
  \/ Ping(Handler)
  \/ SetRssi(Handler)
  \/ AddWrite(Handler)
  \/ AddStored(Handler)
  \/ RecheckIsOk(Bg)
  \/ RecheckClose(Bg)

SpecMessage == Init /\ [][NextMessage]_vars

\* Two goroutines append concurrently.
NextAppenders ==
  \/ \E t \in Clients, w \in Weights : CallAddMeasurement(t, w)
  \/ \E t \in Clients : Lock(t)
  \/ \E t \in Clients : AddWrite(t)
  \/ \E t \in Clients : AddStoreReturn(t)

SpecAppenders == Init /\ [][NextAppenders]_vars

\* Sums and averages while the handler appends measurements of different
\* weights.
NextAverage ==
  \/ \E w \in PlausibleWeights : CallAddMeasurement(Handler, w)
  \/ \E n \in 0..(Size + 1) : CallSumLastN(Reader, n)
  \/ \E n \in 0..(Size + 1) : CallAvgLastN(Reader, n)
  \/ \E t \in Clients : Lock(t)
  \/ AddWrite(Handler)
  \/ AddStored(Handler)
  \/ SumLastN(Reader)

SpecAverage == Init /\ [][NextAverage]_vars

\* Status queries while messages are handled: one goroutine serves push
\* messages of a plausible weight (with a store that answers), another
\* serves the JSON state and the dashboard.
NextStatus ==
  \/ \E r \in Rssis, w \in {x \in Weights : ~Implausible(x)} :
       MessageArrives(Handler, "push", r, w)
  \/ MessageSetRssi(Handler)
  \/ MessageAddMeasurement(Handler)
  \/ MessageDone(Handler)
  \/ CallJsonState(Reader)
  \/ DashboardArrives(Reader)
  \/ DashboardTooEarly(Reader)
  \/ DashboardGetLast(Reader)
  \/ DashboardReadIsOk(Reader)
  \/ DashboardReadFields(Reader)
  \/ \E t \in Clients : Lock(t)
  \/ Ping(Handler)
  \/ SetRssi(Handler)
  \/ AddWrite(Handler)
  \/ AddStored(Handler)
  \/ JsonState(Reader)
  \/ HasLastN(Reader)
  \/ GetMeasurementCount(Reader)
  \/ GetMeasurementRead(Reader)

SpecStatus == Init /\ [][NextStatus]_vars

\* The background goroutine never stops: it outlives the horizon MaxTime of
\* the model, so the clock readings of one more Recheck are kept for it
\* whenever it is between two calls.
BgReserve == IF pc[Bg] = "idle" THEN 2 ELSE 0

TickBeforeRecheck == Tick /\ now' + ReadsInFlight(Threads) + BgReserve <= MaxTime

CallPingBeforeRecheck(t) == CallPing(t) /\ ClockAllows(2 + BgReserve)

\* Contacts and the periodic Recheck of NewScale's goroutine, time passes.
NextClosing ==
  \/ TickBeforeRecheck
  \/ CallPingBeforeRecheck(Handler)
  \/ CallRecheck(Bg)
  \/ \E t \in {Handler, Bg} : Lock(t)
  \/ Ping(Handler)
  \/ RecheckIsOk(Bg)
  \/ RecheckClose(Bg)

\* The goroutine's loop calls Recheck again and again and every step of a
\* running call is taken; a goroutine waiting for the mutex gets it (Go's
\* mutex hands over to a starving waiter); a Ping that holds the mutex
\* finishes.
FairClosing ==
  /\ WF_vars(CallRecheck(Bg))
  /\ SF_vars(Lock(Bg))
  /\ WF_vars(RecheckIsOk(Bg))
  /\ WF_vars(RecheckClose(Bg))
  /\ WF_vars(Ping(Handler))

SpecClosing == Init /\ [][NextClosing]_vars /\ FairClosing

\* the order in which a goroutine exercising the whole Scale calls its methods
MethodOrder ==
  <<"AddMeasurement", "GetMeasurement", "Ping", "Recheck", "IsOk", "SetRssi",
    "GetValidCount", "HasLastN", "SumLastN", "AvgLastN", "JsonState",
    "SetActiveKeg">>

\* method name is the next one to call for a goroutine whose last call was prev
InTurn(prev, name) ==
  \E i \in 1..Len(MethodOrder) :
    /\ MethodOrder[i] = name
    /\ \/ i = 1 /\ prev \in {"none", MethodOrder[Len(MethodOrder)]}
       \/ i > 1 /\ prev = MethodOrder[i - 1]

\* a goroutine calls the next method, with arguments that take it through
\* its critical sections
CallInTurn(t) ==
  \/ InTurn(op[t], "AddMeasurement") /\ CallAddMeasurement(t, MinWeight)
  \/ InTurn(op[t], "GetMeasurement") /\
       \E k \in {0, Size + 1} : CallGetMeasurement(t, k)
  \/ InTurn(op[t], "Ping") /\ CallPing(t)
  \/ InTurn(op[t], "Recheck") /\ CallRecheck(t)
  \/ InTurn(op[t], "IsOk") /\ CallIsOk(t)
  \/ InTurn(op[t], "SetRssi") /\ \E r \in Rssis : CallSetRssi(t, r)
  \/ InTurn(op[t], "GetValidCount") /\ CallGetValidCount(t)
  \/ InTurn(op[t], "HasLastN") /\ CallHasLastN(t, 1)
  \/ InTurn(op[t], "SumLastN") /\ CallSumLastN(t, Size)
  \/ InTurn(op[t], "AvgLastN") /\ CallAvgLastN(t, Size)
  \/ InTurn(op[t], "JsonState") /\ CallJsonState(t)
  \/ InTurn(op[t], "SetActiveKeg") /\ \E k \in Kegs : CallSetActiveKeg(t, k)

\* Every method of the Scale, called in turn by one goroutine while the
\* background goroutine runs Recheck.
NextCalls ==
  \/ CallInTurn(Handler)
  \/ CallRecheck(Bg)
  \/ \E t \in {Handler, Bg} : Step(t)

\* Every goroutine is scheduled, the store answers, and a goroutine waiting
\* for the mutex gets it when it is released again and again.
FairCalls == \A t \in {Handler, Bg} : SF_vars(Step(t))

\* the process starts on an empty store
InitEmptyStore == Init /\ storeMeasurements = << >>

SpecCalls == InitEmptyStore /\ [][NextCalls]_vars /\ FairCalls

\* ---- what the claims speak of

\* thread t returns from method name in this step
Returns(t, name) == pc[t] # "idle" /\ pc'[t] = "idle" /\ op[t] = name

\* thread t has returned from method name
Returned(t, name) == pc[t] = "idle" /\ op[t] = name

\* the venue is closed in this step
Closes == Pub.IsOpen /\ ~Pub'.IsOpen

\* ---- the venue state machine

\* C1: in every reachable state an open venue has OpenedAt later than
\* ClosedAt and a closed venue has ClosedAt later than OpenedAt.
C1_TimestampOrder ==
  /\ Pub.IsOpen => Pub.OpenedAt > Pub.ClosedAt
  /\ ~Pub.IsOpen => Pub.ClosedAt > Pub.OpenedAt

\* C2: the venue is closed only by Recheck, only when the last contact is at
\* least OkLimit old at the moment of closing, and ClosedAt is then set to
\* that moment minus OkLimit.
C2_ClosedOnlyWhenStale ==
  [][Closes =>
       /\ \E t \in Threads : Returns(t, "Recheck")
       /\ now' - LastOk >= OkLimit
       /\ Pub'.ClosedAt = now' - OkLimit]_vars

\* C8: a Ping that finds the venue closed opens it and stamps OpenedAt and
\* LastOk with clock readings taken during the call, OpenedAt first; a Ping
\* that finds it open changes LastOk alone.  Nothing else of the Scale changes.
C8_PingOpens ==
  [][\A t \in Threads :
       Returns(t, "Ping") =>
         /\ Pub'.IsOpen
         /\ LastOk' = now'
         /\ LastOk' > now
         /\ Pub'.ClosedAt = Pub.ClosedAt
         /\ IF Pub.IsOpen
              THEN Pub'.OpenedAt = Pub.OpenedAt
              ELSE now < Pub'.OpenedAt /\ Pub'.OpenedAt <= LastOk'
         /\ UNCHANGED <<ledger, Rssi, ActiveKeg, storeVars>>]_vars

\* a Ping has just opened the venue
C8_Witness ==
  /\ Returned(Handler, "Ping")
  /\ Pub.IsOpen
  /\ Pub.OpenedAt > 3
  /\ LastOk = now
  /\ Pub.OpenedAt = LastOk - 1

\* C9: ClosedAt moves only in a step of Recheck that closes an open venue,
\* and that step is the only way Recheck changes Pub: a Recheck whose IsOk
\* found the sensor reachable returns without touching Pub, one that found
\* it stale goes on to its critical section, where it closes an open venue
\* (ClosedAt = the clock reading minus OkLimit) and leaves a closed one as
\* it is.
C9_RecheckIdempotent ==
  [][/\ Pub'.ClosedAt # Pub.ClosedAt => Closes
     /\ \A t \in Threads :
          /\ (pc[t] = "Recheck_isok_cs" /\ pc'[t] # pc[t]) =>
               /\ Pub' = Pub
               /\ pc'[t] = (IF IsOkAt(now') THEN "idle" ELSE "Recheck_lock")
          /\ (pc[t] = "Recheck_cs" /\ pc'[t] # pc[t]) =>
               IF Pub.IsOpen
                 THEN Pub' = [Pub EXCEPT !.IsOpen = FALSE, !.ClosedAt = now' - OkLimit]
                 ELSE Pub' = Pub]_vars

\* a second Recheck found the sensor still stale after an earlier Recheck
\* closed the venue, and holds the mutex to apply its transition
C9_Witness ==
  /\ ~Pub.IsOpen
  /\ Pub.ClosedAt >= LastOk
  /\ LastOk > 3
  /\ now - LastOk >= OkLimit
  /\ \E t \in {Reader, Bg} : pc[t] = "Recheck_cs"

\* C18: in every reachable state in which no Scale operation is in progress
\* and a contact was recorded less than OkLimit ago, the venue is open (so
\* a Recheck that overlapped a Ping has not left it closed).
C18_ReachableImpliesOpen ==
  ((\A t \in Threads : pc[t] = "idle") /\ now - LastOk < OkLimit) => Pub.IsOpen

\* the venue is open although the last contact is OkLimit or more old
OpenAndStale == Pub.IsOpen /\ now - LastOk >= OkLimit

\* C19: under fair scheduling of the periodic Recheck, an open venue whose
\* last contact is stale eventually is closed unless a new contact is
\* recorded; and a closed venue opens only in a step that records a contact.
C19_EventuallyClosed ==
  /\ OpenAndStale ~> (~Pub.IsOpen \/ now - LastOk < OkLimit)
  /\ [][(~Pub.IsOpen /\ Pub'.IsOpen) => LastOk' > LastOk]_vars

\* the background Recheck has closed a venue that a Ping of this run had
\* opened and whose last contact went stale
C19_Witness ==
  /\ ~Pub.IsOpen
  /\ Pub.OpenedAt > 0
  /\ Pub.ClosedAt > Pub.OpenedAt
  /\ now - LastOk >= OkLimit
  /\ Returned(Bg, "Recheck")
  /\ pc[Handler] = "idle"

\* ---- the ledger

\* the ledger was empty after construction and every store call succeeded
EmptyStartStoreOk == loaded = 0 /\ ~storeFailed

\* the number of slots that hold a measurement
Held == Cardinality({i \in 0..(Size - 1) : Measurements[i] # ZeroMeasurement})

\* C3: GetMeasurement(k) returns the empty measurement (Index -1) whenever,
\* at its return, k >= valid or k >= Size.
C3_RejectsUnwritten ==
  [][\A t \in Threads :
       (Returns(t, "GetMeasurement") /\ (arg[t] >= valid \/ arg[t] >= Size))
         => ret'[t].val = EmptyMeasurement]_vars

\* C4: from an empty ledger and with a store that never fails, after m
\* accepted appends GetValidCount returns min(m, Size) and, for m >= 1,
\* GetMeasurement(0) returns the measurement the last append wrote.
C4_CountAndLast ==
  [][\A t \in Threads :
       EmptyStartStoreOk =>
         /\ Returns(t, "GetValidCount") =>
              ret'[t].num = Min(Len(appended), Size)
         /\ (Returns(t, "GetMeasurement") /\ arg[t] = 0 /\ Len(appended) >= 1) =>
              ret'[t].val = appended[Len(appended)]]_vars

\* after more appends than the buffer holds, GetMeasurement(0) returned the
\* last one and the count has saturated
C4_Witness ==
  /\ EmptyStartStoreOk
  /\ Len(appended) = Size + 2
  /\ valid = Size
  /\ Returned(Reader, "GetMeasurement")
  /\ arg[Reader] = 0
  /\ ret[Reader].val = appended[Len(appended)]
  /\ Returned(Handler, "AddMeasurement")

\* C5: after m accepted appends into an empty ledger, GetMeasurement(k)
\* returns the (m-k)-th appended measurement for every k < min(m, Size).
C5_RelativeOrder ==
  [][\A t \in Threads :
       (/\ Returns(t, "GetMeasurement")
        /\ loaded = 0
        /\ arg[t] < Min(Len(appended), Size))
         => ret'[t].val = appended[Len(appended) - arg[t]]]_vars

\* C6: when AddMeasurement returns, with or without a store error, the
\* cursor stands on the new measurement and valid has been incremented
\* unless it was Size already.
C6_NoRollback ==
  [][\A t \in Threads :
       (Returns(t, "AddMeasurement") /\ ~Implausible(arg[t])) =>
         /\ Measurements'[index'] = appended[Len(appended)]
         /\ valid' = (IF valid < Size THEN valid + 1 ELSE valid)]_vars

\* C7: while a store call is in progress the mutex is free.
C7_StoreCallOutsideMutex ==
  \A t \in Threads : pc[t] \in {"Add_store", "SetKeg_store"} => mux = Free

\* C10 as stated: HasLastN(n) returns false whenever n is greater than the
\* number of measurements the ledger holds (so for every n > Size).
C10_FalseBeyondHeld ==
  [][\A t \in Threads :
       (Returns(t, "HasLastN") /\ arg[t] > Held) => ~ret'[t].flag]_vars

\* C10 as amended: HasLastN(n) clamps n to Size and returns
\* valid >= min(n, Size); from an empty ledger and with a store that never
\* fails it is true exactly when min(n, Size) appends were made, so after
\* Size + 2 appends HasLastN(Size + 1) is true.
C10_HasLastNClamped ==
  [][\A t \in Threads :
       Returns(t, "HasLastN") =>
         /\ ret'[t].flag <=> (valid >= Min(arg[t], Size))
         /\ EmptyStartStoreOk =>
              (ret'[t].flag <=> (Len(appended) >= Min(arg[t], Size)))]_vars

\* after Size + 2 appends HasLastN(Size + 1) returned true
C10_Witness ==
  /\ EmptyStartStoreOk
  /\ Len(appended) = Size + 2
  /\ Returned(Handler, "AddMeasurement")
  /\ Returned(Reader, "HasLastN")
  /\ arg[Reader] = Size + 1
  /\ ret[Reader].flag

\* C11: for every n from 0 to Size, in every reachable state of the ledger
\* (seeded or empty, store failing or not), HasLastN(n) returns true exactly
\* when n is at most the valid count.
C11_HasLastNIffValid ==
  [][\A t \in Threads :
       (Returns(t, "HasLastN") /\ arg[t] \in 0..Size) =>
         (ret'[t].flag <=> arg[t] <= valid)]_vars

\* HasLastN(n) returned true for n equal to a valid count between 1 and
\* Size - 1
C11_Witness ==
  /\ Returned(Reader, "HasLastN")
  /\ valid \in 1..(Size - 1)
  /\ arg[Reader] = valid
  /\ ret[Reader].flag

\* ---- the message endpoint

\* thread t is serving, or in this step starts to serve, a message of this kind
Serving(t, kind) == ~req'[t].done /\ req'[t].kind = kind

\* thread t writes the response to a message of this kind in this step
Responds(t, kind) == ~req[t].done /\ req'[t].done /\ req[t].kind = kind

\* no step changes the ledger, the store's list or starts a store call
LedgerUntouched ==
  /\ UNCHANGED <<ledger, storeMeasurements, appended>>
  /\ \A u \in Threads : pc'[u] # "Add_store"

\* C12: a push message with an implausible weight leaves the cursor, the
\* valid count, every slot and the store untouched and AddMeasurement
\* reports no error, while the message records a contact (LastOk is later
\* than the message's arrival, so IsOk() asked within OkLimit is true) and
\* the venue is open when the message has been handled.
C12_ImplausiblePush ==
  [][\A t \in Threads :
       /\ (Serving(t, "push") /\ Implausible(req'[t].value)) => LedgerUntouched
       /\ (Responds(t, "push") /\ Implausible(req[t].value)) =>
            /\ ~ret[t].err
            /\ LastOk > req[t].at
            /\ Pub.IsOpen]_vars

\* C17: a well-formed message that is not a push records a contact and
\* stores the signal but never touches the ledger: while it is handled the
\* cursor, the valid count, every slot and the store's list stay as they
\* were and no store call starts, and when it has been handled LastOk is
\* later than its arrival and Rssi is the signal it carried.
C17_PingMessage ==
  [][\A t \in Threads :
       /\ Serving(t, "ping") => LedgerUntouched
       /\ Responds(t, "ping") =>
            /\ LastOk > req[t].at
            /\ Rssi = req[t].rssi]_vars

\* a ping message has been handled on a ledger that holds a measurement
C17_Witness ==
  /\ req[Handler].kind = "ping"
  /\ req[Handler].done
  /\ valid >= 1
  /\ LastOk > req[Handler].at
  /\ Rssi = req[Handler].rssi

\* ---- construction from the store

\* what GetMeasurement(k) returns when it runs alone in this state
GetMeasurementNow(k) ==
  IF OffsetRejected(k, valid) THEN EmptyMeasurement
  ELSE Measurements[PhysicalIndex(k)]

\* C13: when the store returned k measurements at construction, oldest
\* first, the ledger afterwards (before any append) holds the most recent
\* min(k, Size) of them: valid is min(k, Size), the cursor is a slot number
\* when k >= 1, and GetMeasurement(j) is the j-th newest stored measurement
\* for every j below min(k, Size).
C13_SeededFromStore ==
  (appended = << >> /\ loaded = Len(storeMeasurements)) =>
    /\ valid = Min(loaded, Size)
    /\ loaded >= 1 => index \in 0..(Size - 1)
    /\ \A j \in 0..(Min(loaded, Size) - 1) :
         GetMeasurementNow(j) = storeMeasurements[loaded - j]

\* ---- concurrent appends

\* thread t is between taking and releasing the mutex in AddMeasurement
Appending(t) == pc[t] \in {"Add_cs", "Add_store"}

\* the slots, newest first, hold the last min(m, Size) of the m measurements
\* written, in the order the writers took the mutex
HoldsLastWritten ==
  \A j \in 0..(Min(Len(appended), Size) - 1) :
    Measurements[GoMod(index - j + Size, Size)] = appended[Len(appended) - j]

\* C14: concurrent accepted AddMeasurement calls are serialized without lost
\* updates: a call that writes does so alone in the critical section, moves
\* the cursor by exactly one slot (mod Size) and writes that slot; and when
\* m calls have completed on a ledger that started empty, valid is
\* min(m, Size) and the slots hold the last min(m, Size) measurements in
\* lock order.
C14_AppendsSerialized ==
  [][/\ \A t \in Threads :
          (pc[t] = "Add_cs" /\ pc'[t] = "Add_store") =>
            /\ \A u \in Threads \ {t} : ~Appending(u)
            /\ index' = (index + 1) % Size
            /\ Measurements'[index'] = appended'[Len(appended')]
            /\ \A i \in 0..(Size - 1) :
                 i # index' => Measurements'[i] = Measurements[i]
     /\ (loaded = 0 /\ \A t \in Threads : pc'[t] = "idle") =>
          /\ valid' = Min(Len(appended'), Size)
          /\ HoldsLastWritten']_vars

\* ---- sums and averages

\* the sum of the weights GetMeasurement(0) .. GetMeasurement(n - 1) return
RECURSIVE SumOfGets(_)
SumOfGets(n) ==
  IF n <= 0 THEN 0 ELSE SumOfGets(n - 1) + GetMeasurementNow(n - 1).Weight

\* the sum of the weights of the last n measurements written
RECURSIVE SumOfLastWritten(_)
SumOfLastWritten(n) ==
  IF n <= 0 THEN 0
  ELSE SumOfLastWritten(n - 1) + appended[Len(appended) - (n - 1)].Weight

\* C15: for every n in 1..Size for which HasLastN(n) is true (valid >= n),
\* SumLastN(n) returns the sum of the weights of GetMeasurement(0) ..
\* GetMeasurement(n - 1), which are the last n weights written, and
\* AvgLastN(n) returns that sum divided by n; AvgLastN(0) returns 0 in
\* every state.
C15_SumAndAverage ==
  [][\A t \in Threads :
       /\ (Returns(t, "SumLastN") /\ arg[t] \in 1..Size /\ valid >= arg[t]) =>
            /\ ret'[t].num = SumOfGets(arg[t])
            /\ ret'[t].num = SumOfLastWritten(arg[t])
       /\ (Returns(t, "AvgLastN") /\ arg[t] \in 1..Size /\ valid >= arg[t]) =>
            /\ ret'[t].num * arg[t] = SumOfGets(arg[t]) * ret'[t].den
            /\ ret'[t].den = arg[t]
       /\ (op'[t] = "AvgLastN" /\ arg'[t] = 0 /\ pc'[t] = "idle") =>
            ret'[t].num = 0]_vars

\* SumLastN(2) and then AvgLastN(2) have returned over two measurements of
\* different weights
C15_Witness ==
  /\ Returned(Reader, "AvgLastN")
  /\ arg[Reader] = 2
  /\ valid >= 2
  /\ GetMeasurementNow(0).Weight # GetMeasurementNow(1).Weight
  /\ ret[Reader].num = 15500
  /\ ret[Reader].den = 2

\* ---- lock discipline

\* thread t reads LastOk or Rssi for a status query in this step
ReadsLiveness(t) ==
  \/ pc[t] = "Json_cs" /\ pc'[t] = "idle"
  \/ pc[t] = "idle" /\ pc'[t] = "Dash_fields"
  \/ pc[t] = "Dash_fields" /\ pc'[t] = "idle"

\* thread u is inside the critical section of Ping or SetRssi, about to write
WritesLiveness(u) == pc[u] \in {"Ping_cs", "SetRssi_cs"}

\* C16: no status query (JSON state or dashboard) reads LastOk or Rssi while
\* a concurrent Ping or SetRssi is inside its critical section writing it.
C16_ReadsUnderMutex ==
  [][\A t \in Threads :
       ReadsLiveness(t) => \A u \in Threads \ {t} : ~WritesLiveness(u)]_vars

\* ---- the mutex

\* thread t holds the mutex while it waits for it or after it has returned
HoldsWrongly(t) == mux = t /\ (AfterLock(pc[t]) # "none" \/ pc[t] = "idle")

\* C20: no method waits for the mutex while its own goroutine holds it and
\* every method has released it when it returns; so, with fair scheduling
\* and a store that answers, every call returns.
C20_NoSelfDeadlock ==
  /\ [](\A t \in Threads : ~HoldsWrongly(t))
  /\ \A t \in {Handler, Bg} : (pc[t] # "idle") ~> (pc[t] = "idle")

\* GetMeasurement, which takes the mutex twice, has returned a measurement
\* while Recheck waits between its two critical sections
C20_Witness ==
  /\ Returned(Handler, "GetMeasurement")
  /\ ret[Handler].val.Index # -1
  /\ valid >= 1
  /\ pc[Bg] = "Recheck_lock"
  /\ mux = Free

====
